---- MODULE Spec2Model ----
(***************************************************************************)
(* Model of the Edgeware bridge module (src/src/bridge.rs): the deposit    *)
(* dispatchable, the withdraw stub and the storage items they read and     *)
(* write.  Every call is applied atomically and in sequence, as the        *)
(* runtime applies extrinsics.                                             *)
(***************************************************************************)
EXTENDS Integers, Sequences, FiniteSets, TLC

(* ----------------------------- bounds ---------------------------------- *)
(* the identities the registry's maintainer may list as authorities *)
NumStakers == 2
(* the steps of a run: calls dispatched and changes of the registry *)
MaxSteps == 4
(* balances::total_issuance() at the start *)
InitialIssuance == 9

(* The callers are the stakers and one identity that never holds stake.  The
   code only compares targets, quantities and hashes for equality and keeps
   the records of different hashes apart: the calls name one of two hashes
   and one of three transfers (target, quantity), of which any two differ in
   the target, in the quantity or in both. *)
Stakers == 1..NumStakers
Accounts == 1..(NumStakers + 1)
Hashes == 1..2
Transfers == {<<1, 1>>, <<2, 1>>, <<1, 2>>}
Targets == {t[1] : t \in Transfers}
Quantities == {t[2] : t \in Transfers}

(* ------------------------- dispatch results ---------------------------- *)
Ok == "Ok"
MismatchedTarget == "Accounts do not match"
MismatchedAmount == "Quantities don't match"
NotAnAuthority == "Invalid non-authority sender"
DuplicateSigner == "Invalid duplicate deposit signings"
(* unimplemented!() does not return: it panics with this message *)
UnimplementedPanic == "panic: not yet implemented"

(* ------------------------------ state ---------------------------------- *)
VARIABLES
    DepositOf,       \* map tx_hash -> (inx, tgt, qty, signers); DOMAIN = the keys that are Some
    DepositCount,    \* u32
    Authorities,     \* Vec<AccountId>
    AuthorityStake,  \* map AccountId -> Balance (0 when absent)
    TotalIssuance,   \* balances::total_issuance()
    FreeBalance,     \* balances free balance per account
    Credits,         \* per tx_hash, how many times deposit issued the credit for it
    StakeSeen,       \* per tx_hash, the signers' stake sum at the last accepted claim
    WithdrawCount,   \* u32
    Withdraws,       \* Vec<Hash>
    WithdrawOf,      \* map Hash -> (index, account, balance, signers)
    WithdrawNonceOf, \* map AccountId -> u32 (0 when absent)
    events,          \* the events the last call deposited
    call,            \* the last call dispatched
    result,          \* what the last call returned
    nsteps           \* the steps taken so far

(* the storage items of the withdraw side *)
withdrawSide == <<WithdrawCount, Withdraws, WithdrawOf, WithdrawNonceOf>>

vars == <<DepositOf, DepositCount, Authorities, AuthorityStake, TotalIssuance,
          FreeBalance, Credits, StakeSeen, withdrawSide, events, call, result, nsteps>>

(* --------------------------- pure helpers ------------------------------ *)

(* a variant that finds an authority whenever the vector is not empty *)
IsAuthorityNonEmpty(authorities, sender) ==
    authorities # <<>>

(* Self::authorities().iter().any(|id| id == &_sender) *)
IsAuthority(authorities, sender) ==
    \E i \in DOMAIN authorities : authorities[i] = sender

(* a variant that looks at the first signer only *)
HasSignedFirst(signers, sender) ==
    signers # <<>> /\ signers[1] = sender

(* signers.iter().any(|id| id == &_sender) *)
HasSigned(signers, sender) ==
    \E i \in DOMAIN signers : signers[i] = sender

(* a variant that puts the sender in front *)
PushSignerFirst(signers, sender) == <<sender>> \o signers

(* a variant that starts the new list afresh *)
PushSignerAlone(signers, sender) == <<sender>>

(* let mut new_signers = signers; new_signers.push(_sender); *)
PushSigner(signers, sender) == Append(signers, sender)

(* new_signers.iter().map(|s| AuthorityStake::get(s)).fold(0, |a,b| a + b) *)
RECURSIVE StakeSum(_, _)
StakeSum(signers, stake) ==
    IF signers = <<>> THEN 0
    ELSE stake[Head(signers)] + StakeSum(Tail(signers), stake)

(* integer_sqrt: the largest r with r * r <= n *)
IntegerSqrt(n) ==
    CHOOSE r \in 0..n : r * r <= n /\ (r + 1) * (r + 1) > n

(* VoteThreshold::SuperMajorityApprove.approved(approve, against, electorate),
   the rule of srml_democracy that deposit calls:
   voters.integer_sqrt() * approve / electorate.integer_sqrt() > against,
   where voters = approve + against *)
Approved(approve, against, electorate) ==
    (IntegerSqrt(approve + against) * approve) \div IntegerSqrt(electorate) > against

(* a variant that counts the signers instead of weighing their stake *)
QuorumReachedBySigning(new_signers, stake, issuance) ==
    Len(new_signers) > 0

(* the decision taken after the signer was pushed: stake of the new signer
   list against the total issuance, with no stake against *)
QuorumReached(new_signers, stake, issuance) ==
    Approved(StakeSum(new_signers, stake), 0, issuance)

(* a variant that compares the quantities before the accounts *)
DepositErrorAmountFirst(rec, authorities, sender, target, quantity) ==
    IF rec.qty # quantity THEN MismatchedAmount
    ELSE IF rec.tgt # target THEN MismatchedTarget
    ELSE IF ~IsAuthority(authorities, sender) THEN NotAnAuthority
    ELSE IF HasSigned(rec.signers, sender) THEN DuplicateSigner
    ELSE Ok

(* a variant without the check for a second signing *)
DepositErrorNoDuplicateCheck(rec, authorities, sender, target, quantity) ==
    IF rec.tgt # target THEN MismatchedTarget
    ELSE IF rec.qty # quantity THEN MismatchedAmount
    ELSE IF ~IsAuthority(authorities, sender) THEN NotAnAuthority
    ELSE Ok

(* a variant that looks for a second signing before it looks for the authority *)
DepositErrorDuplicateFirst(rec, authorities, sender, target, quantity) ==
    IF rec.tgt # target THEN MismatchedTarget
    ELSE IF rec.qty # quantity THEN MismatchedAmount
    ELSE IF HasSigned(rec.signers, sender) THEN DuplicateSigner
    ELSE IF ~IsAuthority(authorities, sender) THEN NotAnAuthority
    ELSE Ok

(* the four ensure! checks of the Some branch, in their order *)
DepositError(rec, authorities, sender, target, quantity) ==
    IF rec.tgt # target THEN MismatchedTarget
    ELSE IF rec.qty # quantity THEN MismatchedAmount
    ELSE IF ~IsAuthority(authorities, sender) THEN NotAnAuthority
    ELSE IF HasSigned(rec.signers, sender) THEN DuplicateSigner
    ELSE Ok

(* a variant that records the sender whoever it is *)
InitialSignersAnyone(authorities, sender) ==
    <<sender>>

(* let mut signers = vec![]; if authorities.any(..) { signers.push(_sender) } *)
InitialSigners(authorities, sender) ==
    IF IsAuthority(authorities, sender) THEN <<sender>> ELSE <<>>

(* a variant that reads the counter after it was advanced *)
NewIndexAfterIncrement(count) == count + 1

(* let index = Self::deposit_count(); *)
NewIndex(count) == count

(* a variant that advances the counter before the match *)
CountAfterAlways(count, exists) ==
    count + 1

(* DepositCount::mutate(|i| *i += 1), reached in the None branch only.  The
   counter is a u32; it counts the records, one per transaction hash, so it
   stays far below 2^32 in every state explored here. *)
CountAfter(count, exists) ==
    IF exists THEN count ELSE count + 1

(* a variant that drops the other keys *)
InsertAlone(map, key, value) ==
    [k \in {key} |-> value]

(* a variant that writes the value under every key *)
InsertEverywhere(map, key, value) ==
    [k \in (DOMAIN map) \cup {key} |-> value]

(* StorageMap::insert *)
Insert(map, key, value) ==
    [k \in (DOMAIN map) \cup {key} |-> IF k = key THEN value ELSE map[k]]

(* a variant that sets the balance to the value *)
SetFreeBalance(balance, who, value) ==
    [balance EXCEPT ![who] = value]

(* balances::increase_free_balance_creating(&tgt, qty) *)
IncreaseFreeBalance(balance, who, value) ==
    [balance EXCEPT ![who] = @ + value]

(* the stake the registry holds for an authority *)
StakeOf(a) == a + 1

(* the members of the Authorities vector *)
AuthoritySet(authorities) == {authorities[i] : i \in DOMAIN authorities}

(* a vector holding the identities of S, in ascending order *)
RECURSIVE VecOf(_)
VecOf(S) ==
    IF S = {} THEN <<>>
    ELSE LET m == CHOOSE x \in S : \A y \in S : x <= y
         IN <<m>> \o VecOf(S \ {m})

(* ------------------------------- Init ---------------------------------- *)
Init ==
    /\ DepositOf = <<>>
    /\ DepositCount = 0
    /\ \E S \in SUBSET Stakers :
        /\ Authorities = VecOf(S)
        /\ AuthorityStake = [a \in Accounts |-> IF a \in S THEN StakeOf(a) ELSE 0]
    /\ TotalIssuance = InitialIssuance
    /\ FreeBalance = [a \in Accounts |-> 0]
    /\ Credits = [h \in Hashes |-> 0]
    /\ StakeSeen = [h \in Hashes |-> 0]
    /\ WithdrawCount = 0
    /\ Withdraws = <<>>
    /\ WithdrawOf = <<>>
    /\ WithdrawNonceOf = [a \in Accounts |-> 0]
    /\ events = <<>>
    /\ call = [op |-> "init", sender |-> 0, target |-> 0, tx_hash |-> 0, quantity |-> 0]
    /\ result = Ok
    /\ nsteps = 0

(* one more step, while the run is within its bound *)
Step ==
    /\ nsteps < MaxSteps
    /\ nsteps' = nsteps + 1

(* ------------------------------ deposit -------------------------------- *)

(* Some((inx, tgt, qty, signers)) => one of the ensure! checks fails *)
DepositRejected(sender, target, tx_hash, quantity) ==
    /\ tx_hash \in DOMAIN DepositOf
    /\ LET err == DepositError(DepositOf[tx_hash], Authorities, sender, target, quantity)
       IN /\ err # Ok
          /\ result' = err
    /\ DepositCount' = CountAfter(DepositCount, TRUE)
    /\ UNCHANGED <<DepositOf, FreeBalance, Credits, StakeSeen>>

(* Some((inx, tgt, qty, signers)) => the signer is recorded, then the quorum is checked *)
DepositSign(sender, target, tx_hash, quantity) ==
    /\ tx_hash \in DOMAIN DepositOf
    /\ LET rec == DepositOf[tx_hash]
           new_signers == PushSigner(rec.signers, sender)
       IN /\ DepositError(rec, Authorities, sender, target, quantity) = Ok
          /\ DepositOf' = Insert(DepositOf, tx_hash,
                                 [inx |-> rec.inx, tgt |-> rec.tgt, qty |-> rec.qty,
                                  signers |-> new_signers])
          /\ IF QuorumReached(new_signers, AuthorityStake, TotalIssuance)
             THEN /\ FreeBalance' = IncreaseFreeBalance(FreeBalance, rec.tgt, rec.qty)
                  /\ Credits' = [Credits EXCEPT ![tx_hash] = @ + 1]
             ELSE UNCHANGED <<FreeBalance, Credits>>
          /\ StakeSeen' = [StakeSeen EXCEPT ![tx_hash] = StakeSum(new_signers, AuthorityStake)]
    /\ DepositCount' = CountAfter(DepositCount, TRUE)
    /\ result' = Ok

(* None => the record is created *)
DepositCreate(sender, target, tx_hash, quantity) ==
    /\ tx_hash \notin DOMAIN DepositOf
    /\ DepositCount' = CountAfter(DepositCount, FALSE)
    /\ DepositOf' = Insert(DepositOf, tx_hash,
                           [inx |-> NewIndex(DepositCount), tgt |-> target, qty |-> quantity,
                            signers |-> InitialSigners(Authorities, sender)])
    /\ StakeSeen' = [StakeSeen EXCEPT ![tx_hash] =
                        StakeSum(InitialSigners(Authorities, sender), AuthorityStake)]
    /\ result' = Ok
    /\ UNCHANGED <<FreeBalance, Credits>>

(* pub fn deposit(origin, target, tx_hash, quantity) -> Result *)
Deposit ==
    /\ Step
    /\ \E sender \in Accounts, tx_hash \in Hashes, transfer \in Transfers :
        LET target == transfer[1]
            quantity == transfer[2]
        IN /\ call' = [op |-> "deposit", sender |-> sender, target |-> target,
                       tx_hash |-> tx_hash, quantity |-> quantity]
           /\ \/ DepositRejected(sender, target, tx_hash, quantity)
              \/ DepositSign(sender, target, tx_hash, quantity)
              \/ DepositCreate(sender, target, tx_hash, quantity)
           /\ events' = <<>>
           /\ UNCHANGED <<Authorities, AuthorityStake, TotalIssuance, withdrawSide>>

(* ------------------------------ withdraw ------------------------------- *)

(* the body reads none of origin, target and quantity; the call is recorded
   by its name alone *)
WithdrawCall == [op |-> "withdraw", sender |-> 0, target |-> 0, tx_hash |-> 0, quantity |-> 0]

(* pub fn withdraw(origin, target, quantity) -> Result { unimplemented!() } *)
Withdraw ==
    /\ Step
    /\ \E sender \in Accounts, transfer \in Transfers :
        /\ call' = WithdrawCall
        /\ result' = UnimplementedPanic
        /\ events' = <<>>
        /\ UNCHANGED <<DepositOf, DepositCount, Authorities, AuthorityStake,
                       TotalIssuance, FreeBalance, Credits, StakeSeen, withdrawSide>>

(* ------------------- the authority registry (external) ----------------- *)

RegistryCall == [op |-> "registry", sender |-> 0, target |-> 0, tx_hash |-> 0, quantity |-> 0]

(* the registry's maintainer adds an authority together with its stake *)
AddAuthority ==
    /\ Step
    /\ \E a \in Stakers \ AuthoritySet(Authorities) :
        /\ Authorities' = VecOf(AuthoritySet(Authorities) \cup {a})
        /\ AuthorityStake' = [AuthorityStake EXCEPT ![a] = StakeOf(a)]
        /\ call' = RegistryCall
        /\ result' = Ok
        /\ events' = <<>>
        /\ UNCHANGED <<DepositOf, DepositCount, TotalIssuance, FreeBalance, Credits,
                       StakeSeen, withdrawSide>>

(* the registry's maintainer removes an authority together with its stake *)
RemoveAuthority ==
    /\ Step
    /\ \E a \in AuthoritySet(Authorities) :
        /\ Authorities' = VecOf(AuthoritySet(Authorities) \ {a})
        /\ AuthorityStake' = [AuthorityStake EXCEPT ![a] = 0]
        /\ call' = RegistryCall
        /\ result' = Ok
        /\ events' = <<>>
        /\ UNCHANGED <<DepositOf, DepositCount, TotalIssuance, FreeBalance, Credits,
                       StakeSeen, withdrawSide>>

(* --------------------------- specifications ---------------------------- *)

Next ==
    \/ Deposit
    \/ Withdraw
    \/ AddAuthority
    \/ RemoveAuthority

Spec == Init /\ [][Next]_vars

(* the same program while the registry's maintainer does nothing *)
NextFixed ==
    \/ Deposit
    \/ Withdraw

FixedSpec == Init /\ [][NextFixed]_vars

TypeOK ==
    /\ DOMAIN DepositOf \subseteq Hashes
    /\ DepositCount \in 0..Cardinality(Hashes)
    /\ nsteps \in 0..MaxSteps
    /\ \A h \in DOMAIN DepositOf :
        /\ DepositOf[h].tgt \in Targets
        /\ DepositOf[h].qty \in Quantities
        /\ DepositOf[h].inx \in 0..(Cardinality(Hashes) - 1)

(* ======================= the claims of the specification ================ *)

(* the primed call is a deposit call; under [][..]_vars this singles out the
   steps taken by Deposit, the only action that records such a call *)
IsDeposit == call'.op = "deposit"

(* the record the call addresses was Some before the call *)
RecordExists == call'.tx_hash \in DOMAIN DepositOf

(* the call carries the stored target and the stored amount *)
ClaimMatches ==
    /\ DepositOf[call'.tx_hash].tgt = call'.target
    /\ DepositOf[call'.tx_hash].qty = call'.quantity

SignerSet(rec) == {rec.signers[i] : i \in DOMAIN rec.signers}

Errors == {MismatchedTarget, MismatchedAmount, NotAnAuthority, DuplicateSigner}

(* C1: exactly-once credit -- for every transaction hash the credit for its
   record is issued at most once, whatever deposit calls are made. *)
ExactlyOnceCredit == \A h \in Hashes : Credits[h] <= 1

(* C2: quorum implies credit -- with a fixed registry, every record whose
   signers' summed stake satisfies the approval policy has been credited,
   the record created by a call whose sender alone holds a quorum included. *)
QuorumImpliesCredit ==
    \A h \in DOMAIN DepositOf :
        Approved(StakeSum(DepositOf[h].signers, AuthorityStake), 0, TotalIssuance)
            => Credits[h] >= 1

(* C3: no credit without quorum -- a deposit call credits only if, at the end
   of the call, the stake of the record's signers satisfies the approval
   policy; a record with no signer has never been credited; a deposit call by
   a non-authority changes no balance. *)
NoCreditWithoutQuorum ==
    [][IsDeposit =>
        /\ (FreeBalance' # FreeBalance \/ Credits' # Credits) =>
            /\ call'.tx_hash \in DOMAIN DepositOf'
            /\ DepositOf'[call'.tx_hash].signers # <<>>
            /\ Approved(StakeSum(DepositOf'[call'.tx_hash].signers, AuthorityStake'),
                        0, TotalIssuance')
        /\ call'.sender \notin AuthoritySet(Authorities) =>
            /\ FreeBalance' = FreeBalance
            /\ Credits' = Credits
        /\ \A h \in DOMAIN DepositOf' :
            DepositOf'[h].signers = <<>> => Credits'[h] = 0
      ]_vars

(* a deposit call that credited: the signers hold a quorum *)
CreditIssued ==
    /\ call.op = "deposit"
    /\ result = Ok
    /\ Credits[call.tx_hash] = 1
    /\ FreeBalance[call.target] = call.quantity
    /\ Len(DepositOf[call.tx_hash].signers) = 2

(* C4: target/amount consistency -- a deposit call on an existing record is
   rejected with MismatchedTarget when its target differs from the stored one,
   and with MismatchedAmount when the target matches and the amount differs,
   whoever the caller is. *)
TargetAmountConsistency ==
    [][(IsDeposit /\ RecordExists) =>
        /\ DepositOf[call'.tx_hash].tgt # call'.target => result' = MismatchedTarget
        /\ (/\ DepositOf[call'.tx_hash].tgt = call'.target
            /\ DepositOf[call'.tx_hash].qty # call'.quantity) => result' = MismatchedAmount
      ]_vars

(* a non-authority was refused for the amount, an existing record at hand *)
AmountRefused ==
    /\ call.op = "deposit"
    /\ result = MismatchedAmount
    /\ call.sender \notin AuthoritySet(Authorities)
    /\ DepositOf[call.tx_hash].tgt = call.target
    /\ DepositOf[call.tx_hash].qty # call.quantity

(* C5: signer uniqueness -- no record's signer list holds the same identity
   twice, also when the authority set changes between calls. *)
SignerUniqueness ==
    \A h \in DOMAIN DepositOf :
        \A i, j \in DOMAIN DepositOf[h].signers :
            i # j => DepositOf[h].signers[i] # DepositOf[h].signers[j]

(* a signer of a record with two signers tried to sign it again *)
SecondSigningRefused ==
    /\ call.op = "deposit"
    /\ result = DuplicateSigner
    /\ Len(DepositOf[call.tx_hash].signers) = 2

(* the sender's claim on this record was accepted: it is among the signers,
   or it is the very call that was accepted last *)
ClaimWasAccepted ==
    \/ HasSigned(DepositOf[call'.tx_hash].signers, call'.sender)
    \/ /\ call.op = "deposit"
       /\ result = Ok
       /\ call.sender = call'.sender
       /\ call.tx_hash = call'.tx_hash

(* C6 as stated: a caller whose claim was accepted, authority or not, is
   rejected with DuplicateSigner when it submits the identical claim again. *)
ReplayIsDuplicateSigner ==
    [][(IsDeposit /\ RecordExists /\ ClaimMatches /\ ClaimWasAccepted) =>
        result' = DuplicateSigner
      ]_vars

(* C6 as amended: a caller whose claim was accepted and who submits the
   identical claim again is rejected with DuplicateSigner when it is a signer
   of the record and still an authority, and with NotAnAuthority when it is
   not an authority at that moment; neither call changes the record, the
   counter or any balance.  It is stated of every caller that submits the
   stored target and amount, those whose claim was accepted among them. *)
ReplayRejected ==
    [][(IsDeposit /\ RecordExists /\ ClaimMatches) =>
        /\ (/\ call'.sender \in AuthoritySet(Authorities)
            /\ call'.sender \in SignerSet(DepositOf[call'.tx_hash]))
                => result' = DuplicateSigner
        /\ call'.sender \notin AuthoritySet(Authorities) => result' = NotAnAuthority
        /\ result' \in {DuplicateSigner, NotAnAuthority} =>
                UNCHANGED <<DepositOf, DepositCount, FreeBalance, Credits>>
      ]_vars

(* the only signer of a record, still an authority, replayed its claim *)
ReplayRefused ==
    /\ call.op = "deposit"
    /\ result = DuplicateSigner
    /\ DepositOf[call.tx_hash].signers = <<call.sender>>
    /\ call.sender \in AuthoritySet(Authorities)

(* C7: all-or-nothing -- a rejected deposit call leaves every record, the
   deposit counter and every balance as they were. *)
RejectionChangesNothing ==
    [][(IsDeposit /\ result' \in Errors) =>
        UNCHANGED <<DepositOf, DepositCount, FreeBalance, Credits,
                    Authorities, AuthorityStake, TotalIssuance>>
      ]_vars

(* a call was rejected for its target while a credited record exists *)
TargetRefused ==
    /\ call.op = "deposit"
    /\ result = MismatchedTarget
    /\ Credits[call.tx_hash] >= 1
    /\ DepositCount = 2

(* C8: creation -- a deposit call on a hash without record succeeds and
   creates the record with the given target and amount; by a non-authority
   with no signer and no credit, by an authority with that caller as the
   only signer. *)
CreationByAnyCaller ==
    [][(IsDeposit /\ ~RecordExists) =>
        /\ result' = Ok
        /\ call'.tx_hash \in DOMAIN DepositOf'
        /\ DepositOf'[call'.tx_hash].tgt = call'.target
        /\ DepositOf'[call'.tx_hash].qty = call'.quantity
        /\ call'.sender \in AuthoritySet(Authorities) =>
                DepositOf'[call'.tx_hash].signers = <<call'.sender>>
        /\ call'.sender \notin AuthoritySet(Authorities) =>
            /\ DepositOf'[call'.tx_hash].signers = <<>>
            /\ FreeBalance' = FreeBalance
            /\ Credits'[call'.tx_hash] = 0
      ]_vars

(* a non-authority has just created a record *)
CreatedByNonAuthority ==
    /\ call.op = "deposit"
    /\ result = Ok
    /\ call.sender \notin AuthoritySet(Authorities)
    /\ call.tx_hash \in DOMAIN DepositOf
    /\ DepositOf[call.tx_hash].signers = <<>>

(* the identities the step added to the signers of the record at h *)
AddedSigners(h) ==
    SignerSet(DepositOf'[h]) \ (IF h \in DOMAIN DepositOf THEN SignerSet(DepositOf[h]) ELSE {})

(* C9: only authorities sign -- a matching deposit call on an existing record
   by a caller outside the authority set is rejected with NotAnAuthority, and
   every identity a call adds to a signer list is the caller, a member of the
   authority set at that moment. *)
OnlyAuthoritiesSign ==
    [][IsDeposit =>
        /\ (/\ RecordExists
            /\ ClaimMatches
            /\ call'.sender \notin AuthoritySet(Authorities)) => result' = NotAnAuthority
        /\ \A h \in DOMAIN DepositOf' :
            /\ AddedSigners(h) \subseteq AuthoritySet(Authorities)
            /\ AddedSigners(h) \subseteq {call'.sender}
      ]_vars

(* a non-authority was refused on a record that an authority has signed *)
NonAuthorityRefused ==
    /\ call.op = "deposit"
    /\ result = NotAnAuthority
    /\ DepositOf[call.tx_hash].signers # <<>>

(* every record carries the number of records created before it *)
IndexesCountRecords ==
    /\ DepositCount = Cardinality(DOMAIN DepositOf)
    /\ {DepositOf[h].inx : h \in DOMAIN DepositOf} = 0..(DepositCount - 1)
    /\ \A h, k \in DOMAIN DepositOf : h # k => DepositOf[h].inx # DepositOf[k].inx

(* C10: index assignment -- a record's index is set at creation to the number
   of records created before it and never changes, so no two records share an
   index and the deposit counter equals the number of records; rejected calls
   and accepted calls on an existing record do not advance the counter. *)
IndexAssignment ==
    /\ []IndexesCountRecords
    /\ [][/\ \A h \in DOMAIN DepositOf :
                /\ h \in DOMAIN DepositOf'
                /\ DepositOf'[h].inx = DepositOf[h].inx
          /\ \A h \in (DOMAIN DepositOf') \ (DOMAIN DepositOf) :
                DepositOf'[h].inx = Cardinality(DOMAIN DepositOf)
          /\ (IsDeposit /\ RecordExists) => DepositCount' = DepositCount
          /\ (IsDeposit /\ ~RecordExists) => DepositCount' = DepositCount + 1
         ]_vars

(* two records exist and the older one has been signed after the newer one
   was created *)
TwoRecordsIndexed ==
    /\ DepositCount = 2
    /\ call.op = "deposit"
    /\ result = Ok
    /\ DepositOf[call.tx_hash].inx = 0
    /\ Len(DepositOf[call.tx_hash].signers) = 2

(* the step is an accepted deposit call on a record that existed *)
AcceptedOnRecord == IsDeposit /\ RecordExists /\ result' = Ok

(* C11 as stated: the stake sum of a record's signers never decreases from
   one accepted claim on the record to the next accepted claim on it. *)
StakeNeverDecreases ==
    [][AcceptedOnRecord => StakeSeen'[call'.tx_hash] >= StakeSeen[call'.tx_hash]]_vars

(* C11 as amended: an accepted claim leaves the stake sum at least as large as
   the present stake of the signers recorded before it; so the sum does not
   decrease from one accepted claim to the next unless the registry has
   lowered the stake of a recorded signer in between. *)
StakeGrowsBySigning ==
    [][AcceptedOnRecord =>
        LET h == call'.tx_hash
            before == StakeSum(DepositOf[h].signers, AuthorityStake)
        IN /\ StakeSeen'[h] = StakeSum(DepositOf'[h].signers, AuthorityStake)
           /\ StakeSeen'[h] >= before
           /\ before >= StakeSeen[h] => StakeSeen'[h] >= StakeSeen[h]
      ]_vars

(* a second authority has signed and the stake sum has grown to both stakes *)
StakeGrown ==
    /\ call.op = "deposit"
    /\ result = Ok
    /\ Len(DepositOf[call.tx_hash].signers) = 2
    /\ StakeSeen[call.tx_hash] = StakeOf(1) + StakeOf(2)

(* the error value the interface names for the withdraw path *)
UnimplementedError == "Unimplemented"

(* C12: withdraw is a total stub -- every withdraw call returns the
   Unimplemented error as a value, without panicking, and leaves all state
   unchanged. *)
WithdrawReturnsUnimplemented ==
    [][call'.op = "withdraw" =>
        /\ result' = UnimplementedError
        /\ UNCHANGED <<DepositOf, DepositCount, Authorities, AuthorityStake,
                       TotalIssuance, FreeBalance, withdrawSide>>
      ]_vars

(* the event a deposit call is to emit for the claim it accepted *)
DepositRecorded(target, tx_hash, quantity) ==
    [name |-> "Deposit", account |-> target, hash |-> tx_hash, balance |-> quantity]

(* C13: notification on acceptance -- every accepted deposit call emits
   exactly one event carrying the record's target, transaction hash and
   amount; a rejected call emits none. *)
AcceptedClaimIsNotified ==
    [][IsDeposit =>
        /\ result' = Ok =>
            events' = <<DepositRecorded(DepositOf'[call'.tx_hash].tgt, call'.tx_hash,
                                        DepositOf'[call'.tx_hash].qty)>>
        /\ result' \in Errors => events' = <<>>
      ]_vars

(* C14: error precedence -- a deposit call on an existing record is answered
   with the first violated check in the order MismatchedTarget,
   MismatchedAmount, NotAnAuthority, DuplicateSigner; a signer that is no
   longer an authority gets NotAnAuthority. *)
ErrorPrecedence ==
    [][(IsDeposit /\ RecordExists) =>
        LET rec == DepositOf[call'.tx_hash]
            wrongTarget == rec.tgt # call'.target
            wrongAmount == rec.qty # call'.quantity
            noAuthority == call'.sender \notin AuthoritySet(Authorities)
            signedTwice == call'.sender \in SignerSet(rec)
        IN /\ wrongTarget => result' = MismatchedTarget
           /\ (~wrongTarget /\ wrongAmount) => result' = MismatchedAmount
           /\ (~wrongTarget /\ ~wrongAmount /\ noAuthority) => result' = NotAnAuthority
           /\ (~wrongTarget /\ ~wrongAmount /\ ~noAuthority /\ signedTwice)
                => result' = DuplicateSigner
           /\ (~wrongTarget /\ ~wrongAmount /\ ~noAuthority /\ ~signedTwice)
                => result' = Ok
      ]_vars

(* a signer that the registry has dropped replayed its claim *)
DroppedSignerRefused ==
    /\ call.op = "deposit"
    /\ result = NotAnAuthority
    /\ call.sender \in SignerSet(DepositOf[call.tx_hash])
    /\ call.sender \notin AuthoritySet(Authorities)

(* C15: record permanence -- a record that exists for a hash exists for it in
   every later state, with the index, target and amount written at creation. *)
RecordPermanence ==
    [][\A h \in DOMAIN DepositOf :
        /\ h \in DOMAIN DepositOf'
        /\ DepositOf'[h].inx = DepositOf[h].inx
        /\ DepositOf'[h].tgt = DepositOf[h].tgt
        /\ DepositOf'[h].qty = DepositOf[h].qty
      ]_vars

(* the second record has been signed while the first one is kept *)
SecondRecordSigned ==
    /\ call.op = "deposit"
    /\ result = Ok
    /\ DOMAIN DepositOf = Hashes
    /\ DepositOf[call.tx_hash].inx = 1
    /\ DepositOf[call.tx_hash].signers # <<>>
    /\ nsteps >= 3

(* s is an initial part of t *)
IsPrefix(s, t) ==
    /\ Len(s) <= Len(t)
    /\ \A i \in DOMAIN s : s[i] = t[i]

(* C16: signers only grow -- an accepted deposit call on an existing record
   appends exactly the caller to the record's signer list, every step keeps
   the earlier list as a prefix, and a matching claim by an authority that
   has not signed is accepted after the credit as well. *)
SignersGrowByCaller ==
    [][/\ \A h \in DOMAIN DepositOf :
            /\ h \in DOMAIN DepositOf'
            /\ IsPrefix(DepositOf[h].signers, DepositOf'[h].signers)
       /\ AcceptedOnRecord =>
            DepositOf'[call'.tx_hash].signers
                = DepositOf[call'.tx_hash].signers \o <<call'.sender>>
       /\ (/\ IsDeposit /\ RecordExists /\ ClaimMatches
           /\ Credits[call'.tx_hash] >= 1
           /\ call'.sender \in AuthoritySet(Authorities)
           /\ call'.sender \notin SignerSet(DepositOf[call'.tx_hash]))
            => result' = Ok
      ]_vars

(* an authority has signed a record that was credited before *)
SignedAfterCredit ==
    /\ call.op = "deposit"
    /\ result = Ok
    /\ Credits[call.tx_hash] = 2
    /\ DepositOf[call.tx_hash].signers[2] = call.sender

(* the step credited the record of the call *)
CreditStep == IsDeposit /\ Credits' # Credits

(* C17: credit is for the stored target and amount -- a deposit call that
   credits raises the balance of the record's stored target by exactly the
   stored amount and changes no other balance; a deposit call that does not
   credit changes no balance. *)
CreditMatchesRecord ==
    [][IsDeposit =>
        /\ CreditStep =>
            LET rec == DepositOf[call'.tx_hash]
            IN /\ RecordExists
               /\ Credits' = [Credits EXCEPT ![call'.tx_hash] = @ + 1]
               /\ FreeBalance'[rec.tgt] = FreeBalance[rec.tgt] + rec.qty
               /\ \A a \in Accounts \ {rec.tgt} : FreeBalance'[a] = FreeBalance[a]
        /\ ~CreditStep => FreeBalance' = FreeBalance
      ]_vars

(* a target that held a balance has been credited once more *)
CreditedOnTop ==
    /\ call.op = "deposit"
    /\ result = Ok
    /\ Credits[call.tx_hash] = 1
    /\ FreeBalance[call.target] > call.quantity

(* C18: frame of deposit -- a deposit call for a hash modifies the record of
   no other hash, nor the authority set, the stakes or the withdraw side. *)
DepositFrame ==
    [][IsDeposit =>
        /\ \A h \in (DOMAIN DepositOf) \ {call'.tx_hash} :
            /\ h \in DOMAIN DepositOf'
            /\ DepositOf'[h] = DepositOf[h]
        /\ DOMAIN DepositOf' \subseteq (DOMAIN DepositOf) \cup {call'.tx_hash}
        /\ UNCHANGED <<Authorities, AuthorityStake, withdrawSide>>
      ]_vars

(* the first record has been signed while a second record exists *)
FirstRecordSignedBesideSecond ==
    /\ call.op = "deposit"
    /\ result = Ok
    /\ DOMAIN DepositOf = Hashes
    /\ DepositOf[call.tx_hash].inx = 0
    /\ DepositOf[call.tx_hash].signers # <<>>
    /\ nsteps >= 3

(* the authority set is not empty and its combined stake satisfies the policy *)
AuthoritiesHoldQuorum ==
    /\ Authorities # <<>>
    /\ Approved(StakeSum(Authorities, AuthorityStake), 0, TotalIssuance)

(* every authority has submitted the claim of the record at h: with a fixed
   registry each of them is accepted once and stored as a signer *)
AllAuthoritiesClaimed(h) ==
    AuthoritySet(Authorities) \subseteq SignerSet(DepositOf[h])

(* C19: settlement is reachable by the authorities alone -- with a fixed,
   non-empty authority set whose combined stake satisfies the policy, once
   every authority has submitted the same claim the target has been
   credited, whatever the size of the set, a single authority included. *)
AuthoritiesSettle ==
    AuthoritiesHoldQuorum =>
        \A h \in DOMAIN DepositOf : AllAuthoritiesClaimed(h) => Credits[h] >= 1

====
